---- MODULE Spec2Model ----
(***************************************************************************)
(* Page-layout and pagination engine of polarsteps_data_parser             *)
(* (PDFGenerator in pdf_generator.py): cursor, page rollover, footer,      *)
(* text flow, word wrap and image placement, as a state machine.           *)
(*                                                                         *)
(* Lengths are points.  Floats of the source are integers here; a float    *)
(* division a / b is the integer quotient (a \div b).                      *)
(***************************************************************************)
EXTENDS Integers, Sequences, FiniteSets, TLC

VARIABLES
  gen,      \* the PDFGenerator object: its attributes, its canvas, and the
            \* canvas calls of the placement operation that ran last (gen.ev)
  pc,       \* position of the control flow inside generate_pdf
  runs,     \* number of generate_pdf calls made on this PDFGenerator
  step,     \* the Step being rendered by generate_step_pages: comments placed so far,
            \* number of photos, photos the loop has looked at and not placed yet
  i,        \* generate_step_pages: index of the photo loop (0-based, as in the code)
  wtext,    \* wrap_text called on its own: the text argument
  wmax,     \* wrap_text called on its own: the max_width argument
  wlines,   \* wrap_text called on its own: the returned lines
  wpc       \* wrap_text called on its own: "ready" before the call, "wrapped" after

vars == <<gen, pc, runs, step, i, wtext, wmax, wlines, wpc>>

-----------------------------------------------------------------------------
(* Bounds of the model *)

MaxSteps == 1       \* steps of a trip
MaxComments == 1    \* comments of a step
MaxPhotos == 2      \* photos of a step
MaxRuns == 2        \* generate_pdf calls on one PDFGenerator
MaxFaults == 1      \* canvas failures injected into _draw_footer
MaxTextLen == 5     \* characters (chunks) of a text given to wrap_text on its own
ParaLines == 30     \* lines of the long paragraph

-----------------------------------------------------------------------------
(* Program constants *)

PageWidth == 612        \* letter[0]
PageHeight == 792       \* letter[1]
TopMargin == 30
BottomMargin == 50
SideMargin == 30
HeadingAdvance == 30
TitleDrop == 100
TitleGap == 20
LineHeight == 20
ParagraphPreGap == 10
ParagraphPostGap == 20
PhotoGap == 20
OverlapBuffer == 8
CoverWidth == 500
FooterY == 15
FooterLineOffset == 12
FooterFontSize == 8
DefaultPortraitHeight == 330
DefaultLandscapeWidth == 250
DefaultSideBySideGap == 20
DefaultPhotoPadding == 3
DefaultPhotoBorderWidth == 5    \* 0.5 point, in tenths of a point
FooterLineWidth == 5            \* 0.5 point, in tenths of a point

MAIN_FONT_DEFAULT == <<"Helvetica", 12>>
BOLD_FONT == <<"Helvetica-Bold", 12>>
HEADING_FONT == <<"Helvetica-Bold", 16>>
TITLE_HEADING_FONT == <<"Helvetica-Bold", 36>>

-----------------------------------------------------------------------------
(* Texts.  A text is a sequence of chunks; a chunk is a character, or a run  *)
(* of non-whitespace characters standing for a word of the given width.     *)

Space == " "
Newline == "\n"
Sentinel == "<newline>"      \* the 9 characters < n e w l i n e >
LongWord == "Long300"        \* a word 300 points wide in the body font
MidWord == "Mid210"          \* a word 210 points wide in the body font
EAcute == "u00e9"            \* the character U+00E9
Emoji == "u26c5"             \* the character U+26C5

Whitespace == {Space, Newline}

\* ord(): the largest codepoint of the chunk's characters
Ord(c) ==
  CASE c = EAcute -> 233
    [] c = Emoji -> 9925
    [] c = Space -> 32
    [] c = Newline -> 10
    [] OTHER -> 119

\* any(ord(ch) > 127 for ch in text)
HasNonAscii(text) == \E k \in 1..Len(text) : Ord(text[k]) > 127

\* width of a chunk at 12 points (the font metrics of the drawing library)
GlyphW(c) ==
  CASE c = "a" -> 7
    [] c = "i" -> 3
    [] c = Space -> 3
    [] c = Newline -> 0
    [] c = Sentinel -> 63
    [] c = LongWord -> 300
    [] c = MidWord -> 210
    [] c = "Ort:" -> 24
    [] c = "Datum:" -> 42
    [] c = "Seite" -> 29
    [] c = "01-01-2024" -> 56
    [] c = "02-01-2024" -> 56
    [] c = EAcute -> 7
    [] c = Emoji -> 12
    [] OTHER -> 7

RECURSIVE SumW(_)
SumW(text) == IF text = <<>> THEN 0 ELSE GlyphW(Head(text)) + SumW(Tail(text))

\* reportlab stringWidth(text, fontName, fontSize): linear in the font size
stringWidth(text, font) == (SumW(text) * font[2]) \div 12

\* the characters of a word as one string
RECURSIVE Str(_)
Str(word) == IF word = <<>> THEN "" ELSE Head(word) \o Str(Tail(word))

\* text.replace("\n", " <newline> ") on the characters lo..hi of text (the range
\* is halved: every character is replaced on its own)
RECURSIVE ReplaceRange(_, _, _)
ReplaceRange(text, lo, hi) ==
  IF lo > hi THEN <<>>
  ELSE IF lo = hi
  THEN (IF text[lo] = Newline THEN <<Space, Sentinel, Space>> ELSE <<text[lo]>>)
  ELSE ReplaceRange(text, lo, (lo + hi) \div 2)
         \o ReplaceRange(text, (lo + hi) \div 2 + 1, hi)

\* text.replace("\n", " <newline> ")
ReplaceNewlines(text) == ReplaceRange(text, 1, Len(text))

\* the first position >= k of text holding whitespace (Len(text) + 1 when none)
RECURSIVE WordEnd(_, _)
WordEnd(text, k) ==
  IF k > Len(text) \/ text[k] \in Whitespace THEN k ELSE WordEnd(text, k + 1)

\* the words of text that start at a position in lo..hi, in order
RECURSIVE SplitRange(_, _, _)
SplitRange(text, lo, hi) ==
  IF lo > hi THEN <<>>
  ELSE IF lo = hi
  THEN (IF text[lo] \notin Whitespace /\ (lo = 1 \/ text[lo - 1] \in Whitespace)
        THEN <<SubSeq(text, lo, WordEnd(text, lo) - 1)>>
        ELSE <<>>)
  ELSE SplitRange(text, lo, (lo + hi) \div 2) \o SplitRange(text, (lo + hi) \div 2 + 1, hi)

\* str.split(): the maximal runs of non-whitespace characters, in order
Split(text) == SplitRange(text, 1, Len(text))

\* str.strip(): leading and trailing whitespace removed
RECURSIVE LStrip(_)
LStrip(s) == IF s # <<>> /\ Head(s) \in Whitespace THEN LStrip(Tail(s)) ELSE s

RECURSIVE RStrip(_)
RStrip(s) ==
  IF s # <<>> /\ s[Len(s)] \in Whitespace THEN RStrip(SubSeq(s, 1, Len(s) - 1)) ELSE s

Strip(s) == RStrip(LStrip(s))

\* f"{current_line} {word}".strip()
TestLine(current_line, word) == Strip(current_line \o <<Space>> \o word)

fits_word_only(current_line, word, font, max_width) ==
  stringWidth(word, font) <= max_width

\* if self.canvas.stringWidth(test_line) <= max_width
fits(current_line, word, font, max_width) ==
  stringWidth(TestLine(current_line, word), font) <= max_width

\* the loop of wrap_text over the words, then lines.append(current_line): the
\* lines appended from here on
RECURSIVE WrapLoop(_, _, _, _)
WrapLoop(words, current_line, font, max_width) ==
  IF words = <<>> THEN <<current_line>>
  ELSE IF Str(Head(words)) = Sentinel
  THEN <<current_line>> \o WrapLoop(Tail(words), <<>>, font, max_width)
  ELSE IF fits(current_line, Head(words), font, max_width)
  THEN WrapLoop(Tail(words), TestLine(current_line, Head(words)), font, max_width)
  ELSE <<current_line>> \o WrapLoop(Tail(words), Head(words), font, max_width)

\* wrap_text(text, max_width), measured in the font the canvas was set to
wrap_text(text, max_width, font) ==
  WrapLoop(Split(ReplaceNewlines(text)), <<>>, font, max_width)

\* the sequences over S of length at most n
RECURSIVE SeqsUpTo(_, _)
SeqsUpTo(S, n) ==
  IF n = 0 THEN {<<>>}
  ELSE LET shorter == SeqsUpTo(S, n - 1) IN
       shorter \cup {Append(s, c) : s \in {t \in shorter : Len(t) = n - 1}, c \in S}

-----------------------------------------------------------------------------
(* The canvas (reportlab Canvas) as far as PDFGenerator uses it *)

NoText == <<>>
NoFont == <<"", 0>>

\* a page of the document: whether it has content, the footers drawn on it, and
\* whether content was drawn after a footer
EmptyPage == [content |-> FALSE, footers |-> <<>>, late |-> FALSE]

\* one canvas call, or the entry of a placement operation (op = "call")
Ev(op, role, x, y, w, h, arg, font) ==
  [op |-> op, role |-> role, x |-> x, y |-> y, w |-> w, h |-> h, arg |-> arg, font |-> font,
   page |-> EmptyPage]

\* the graphics state of a new page: black fill, black stroke, line width 1
\* (line widths are in tenths of a point)
InitialGraphicsState == [fill |-> "black", stroke |-> "black", line_width |-> 10]

NoCanvas ==
  [exists |-> FALSE, font |-> NoFont, shown |-> 0, page |-> EmptyPage, saved |-> FALSE,
   gs |-> InitialGraphicsState, stack |-> <<>>]

\* Canvas(filename, pagesize=letter)
NewCanvas ==
  [exists |-> TRUE, font |-> MAIN_FONT_DEFAULT, shown |-> 0, page |-> EmptyPage, saved |-> FALSE,
   gs |-> InitialGraphicsState, stack |-> <<>>]

Emit(g, e) == [g EXCEPT !.ev = Append(@, e)]

\* entry of a placement operation: its name and the cursor it starts from
Call(g, name) == Emit(g, Ev("call", "op", 0, g.y_position, 0, 0, <<name>>, NoFont))

\* content put on the current page (late: after the page's footer)
MarkContent(g) ==
  [g EXCEPT !.canvas.page.content = TRUE,
            !.canvas.page.late = @ \/ g.canvas.page.footers # <<>>]

setFont(g, font) == [g EXCEPT !.canvas.font = font]

drawString(g, x, y, text) ==
  MarkContent(Emit(g, Ev("drawString", "content", x, y, 0, 0, text, g.canvas.font)))

setFillColorRGB(g, color) == [g EXCEPT !.canvas.gs.fill = color]
setStrokeColorRGB(g, color) == [g EXCEPT !.canvas.gs.stroke = color]
setLineWidth(g, width) == [g EXCEPT !.canvas.gs.line_width = width]

\* the event of saveState / restoreState: the depth of the stack of saved states
\* (x), the line width (w) and the fill and stroke colors of the canvas
StateEv(g, op) ==
  Emit(g, Ev(op, "state", Len(g.canvas.stack), 0, g.canvas.gs.line_width, 0,
             <<g.canvas.gs.fill, g.canvas.gs.stroke>>, NoFont))

\* canvas.saveState(): pushes the graphics state
saveState(g) == [StateEv(g, "saveState") EXCEPT !.canvas.stack = Append(@, g.canvas.gs)]

Popped(g) ==
  [g EXCEPT !.canvas.gs = g.canvas.stack[Len(g.canvas.stack)],
            !.canvas.stack = SubSeq(@, 1, Len(@) - 1)]

restoreState_kept(g) == StateEv(g, "restoreState")

\* canvas.restoreState(): pops the graphics state saved last
restoreState(g) == StateEv(Popped(g), "restoreState")

\* canvas.showPage(): closes the page (the event carries the page closed and its
\* number in the document); the next page starts in the canvas's initial font
\* and graphics state
showPage(g) ==
  [Emit(g, [Ev("showPage", "page", 0, 0, 0, 0, NoText, NoFont)
              EXCEPT !.page = g.canvas.page, !.x = g.canvas.shown + 1])
     EXCEPT !.canvas.shown = @ + 1,
            !.canvas.page = EmptyPage,
            !.canvas.font = MAIN_FONT_DEFAULT,
            !.canvas.gs = InitialGraphicsState,
            !.canvas.stack = <<>>]

\* canvas.save(): closes the last page and writes the file
save(g) ==
  [Emit(g, [Ev("save", "page", 0, 0, 0, 0, NoText, NoFont)
              EXCEPT !.page = g.canvas.page, !.x = g.canvas.shown + 1])
     EXCEPT !.canvas.shown = @ + 1,
            !.canvas.page = EmptyPage,
            !.canvas.saved = TRUE]

-----------------------------------------------------------------------------
(* Footer and page rollover *)

RECURSIVE Digits(_)
Digits(n) == IF n < 10 THEN <<ToString(n)>> ELSE Digits(n \div 10) \o <<ToString(n % 10)>>

FooterParts == 4          \* separator line, trip name, step counter, page label
NoFault == 0
FaultPoints == 0..FooterParts

\* calc_width_centered(text, font)
calc_width_centered(g, text, font) == (g.width - stringWidth(text, font)) \div 2

\* the guard of _draw_footer: no canvas yet, or no (or an empty) trip name
FooterSkipped(g) == ~g.canvas.exists \/ g.current_trip_name = NoText

LastFooter(g) == g.canvas.page.footers[Len(g.canvas.page.footers)]

\* _draw_footer enters: the footer of the current page, of which `parts` parts
\* will be drawn before the canvas raises (all of them without a fault)
footer_begin(g, fault) ==
  [g EXCEPT !.canvas.page.footers =
     Append(@, [parts |-> IF fault = NoFault THEN FooterParts ELSE fault - 1,
                label |-> g.page_number,
                cur |-> g.current_step,
                total |-> g.total_steps])]

\* the separator line above the footer
footer_line(g) ==
  IF LastFooter(g).parts < 1 THEN g
  ELSE Emit(setLineWidth(setStrokeColorRGB(g, "black"), FooterLineWidth),
            Ev("line", "footer", SideMargin, FooterY + FooterLineOffset,
               g.width - 2 * SideMargin, 0, NoText, g.canvas.font))

footer_left_font(g) ==
  IF HasNonAscii(g.current_trip_name) THEN <<g.MAIN_FONT[1], FooterFontSize>>
  ELSE <<"Helvetica", FooterFontSize>>

\* left: the trip name
footer_left(g) ==
  IF LastFooter(g).parts < 2 THEN g
  ELSE Emit(setFont(g, footer_left_font(g)),
            Ev("drawString", "footer", SideMargin, FooterY, 0, 0,
               g.current_trip_name, footer_left_font(g)))

footer_center_text(g) == Digits(g.current_step) \o <<"/">> \o Digits(g.total_steps)
footer_center_font == <<"Helvetica", FooterFontSize>>

\* center: the step counter n/m
footer_center(g) ==
  IF LastFooter(g).parts < 3 THEN g
  ELSE Emit(setFont(g, footer_center_font),
            Ev("drawString", "footer", calc_width_centered(g, footer_center_text(g), footer_center_font),
               FooterY, 0, 0, footer_center_text(g), footer_center_font))

footer_right_text(g) == <<"Seite", Space>> \o Digits(g.page_number)
footer_right_font == <<"Helvetica", FooterFontSize>>

\* right: the page label "Seite N"
footer_right(g) ==
  IF LastFooter(g).parts < 4 THEN g
  ELSE Emit(setFont(g, footer_right_font),
            Ev("drawString", "footer",
               g.width - SideMargin - stringWidth(footer_right_text(g), footer_right_font),
               FooterY, 0, 0, footer_right_text(g), footer_right_font))

\* the canvas raised inside the footer
footer_end(g, fault) ==
  IF fault = NoFault THEN g
  ELSE [g EXCEPT !.raised = "FooterDrawFailure", !.faults = @ + 1]

\* _draw_footer(); fault = k > 0: the canvas raises in the k-th part of the
\* footer, after parts 1..k-1 were drawn
draw_footer(g, fault) ==
  IF FooterSkipped(g) THEN g
  ELSE CHOOSE r \in
         {footer_end(p4, fault) :
            p4 \in {footer_right(p3) :
              p3 \in {footer_center(p2) :
                p2 \in {footer_left(p1) :
                  p1 \in {footer_line(p0) :
                    p0 \in {footer_begin(g, fault)}}}}}} : TRUE

Rollover_no_count(f) ==
  [showPage(f) EXCEPT !.width = PageWidth,
                      !.height = PageHeight,
                      !.y_position = PageHeight - TopMargin]

\* the rest of new_page after the footer: showPage, page counter, cursor
Rollover(f) ==
  [showPage(f) EXCEPT !.page_number = IF @ # 0 THEN @ + 1 ELSE @,
                      !.width = PageWidth,
                      !.height = PageHeight,
                      !.y_position = PageHeight - TopMargin]

\* except Exception: pass
Swallow(f) == [f EXCEPT !.raised = ""]

Propagate(f) == f

RolloverIfOk(f) == IF f.raised # "" THEN f ELSE Rollover(f)

new_page_uncaught(g, fault) == RolloverIfOk(Propagate(draw_footer(g, fault)))

\* new_page(): try: _draw_footer() except Exception: pass; then the rollover
new_page(g, fault) ==
  CHOOSE r \in {Rollover(Swallow(f)) : f \in {draw_footer(g, fault)}} : TRUE

-----------------------------------------------------------------------------
(* Text flow *)

text_check_no_margin(y) == y < 0

\* if self.y_position < 50: of heading, short_text, short_text_with_right, long_text
text_check(y) == y < BottomMargin

\* if self.y_position < 50: self.new_page()
ensure_text(g, fault) == IF text_check(g.y_position) THEN new_page(g, fault) ELSE g

\* the font of a text role: the role's font, or MAIN_FONT's name at the role's
\* size when the text has a character above 127
role_font(g, role, text) ==
  IF HasNonAscii(text) THEN <<g.MAIN_FONT[1], role[2]>> ELSE role

Advance(g, dy) == [g EXCEPT !.y_position = @ - dy]

heading_draw(g, text) ==
  Advance(drawString(setFont(g, role_font(g, HEADING_FONT, text)),
                     SideMargin, g.y_position, text),
          HeadingAdvance)

heading(g, text, fault) == heading_draw(ensure_text(Call(g, "heading"), fault), text)

title_heading_draw(g, text) ==
  Advance(drawString(setFont(g, role_font(g, TITLE_HEADING_FONT, text)),
                     calc_width_centered(g, text, role_font(g, TITLE_HEADING_FONT, text)),
                     g.y_position, text),
          HeadingAdvance)

title_heading(g, text) == title_heading_draw(Advance(Call(g, "title_heading"), TitleDrop), text)

short_text_font(g, text, bold) ==
  IF bold THEN role_font(g, BOLD_FONT, text) ELSE g.MAIN_FONT

short_text_draw(g, text, bold, centered) ==
  Advance(drawString(setFont(g, short_text_font(g, text, bold)),
                     IF centered
                     THEN calc_width_centered(g, text, short_text_font(g, text, bold))
                     ELSE SideMargin,
                     g.y_position, text),
          LineHeight)

short_text(g, text, bold, centered, fault) ==
  short_text_draw(ensure_text(Call(g, "short_text"), fault), text, bold, centered)

\* left_font / footer_right_font of short_text_with_right
side_font(g, text, bold) ==
  IF HasNonAscii(text) /\ bold THEN <<g.MAIN_FONT[1], BOLD_FONT[2]>>
  ELSE (IF bold THEN BOLD_FONT ELSE g.MAIN_FONT)

overlaps_strict(right_x, left_end) == right_x < left_end + OverlapBuffer

\* if right_x <= left_end + 8: the right text would overlap the left text
overlaps(right_x, left_end) == right_x <= left_end + OverlapBuffer

left_end_of(g, left_text, bold_left) ==
  SideMargin + stringWidth(left_text, side_font(g, left_text, bold_left))

right_x_of(g, right_text, bold_right) ==
  g.width - SideMargin - stringWidth(right_text, side_font(g, right_text, bold_right))

swr_left(g, left_text, bold_left) ==
  drawString(setFont(g, side_font(g, left_text, bold_left)),
             SideMargin, g.y_position, left_text)

swr_right_draw(g, right_text, bold_right) ==
  Advance(drawString(setFont(g, side_font(g, right_text, bold_right)),
                     right_x_of(g, right_text, bold_right), g.y_position, right_text),
          LineHeight)

swr_right(g, left_text, right_text, bold_left, bold_right) ==
  IF overlaps(right_x_of(g, right_text, bold_right), left_end_of(g, left_text, bold_left))
  THEN swr_right_draw(Advance(g, LineHeight), right_text, bold_right)
  ELSE swr_right_draw(g, right_text, bold_right)

short_text_with_right(g, left_text, right_text, bold_left, bold_right, fault) ==
  swr_right(swr_left(ensure_text(Call(g, "short_text_with_right"), fault),
                     left_text, bold_left),
            left_text, right_text, bold_left, bold_right)

long_text_draw(g, line) ==
  Advance(drawString(g, SideMargin, g.y_position, line), LineHeight)

\* the loop of long_text over the wrapped lines: the check before every line, the
\* page break with its setFont, the draw; a fault is injected into the first
\* page rollover of the loop only.  Every iteration is entered as "long_text_line".
RECURSIVE long_text_lines(_, _, _)
long_text_lines(g, lines, fault) ==
  IF lines = <<>> THEN g
  ELSE IF text_check(g.y_position)
  THEN long_text_lines(long_text_draw(setFont(new_page(Call(g, "long_text_line"), fault),
                                              g.MAIN_FONT),
                                      Head(lines)),
                       Tail(lines), NoFault)
  ELSE long_text_lines(long_text_draw(Call(g, "long_text_line"), Head(lines)),
                       Tail(lines), fault)

long_text_body_no_post_gap(g, text, fault) ==
  long_text_lines(setFont(g, g.MAIN_FONT),
                  wrap_text(text, g.width - 2 * SideMargin, g.MAIN_FONT),
                  fault)

\* self.y_position -= 10; lines = self.wrap_text(text, self.width - 60), which
\* sets the canvas to MAIN_FONT; the loop; self.y_position -= 20
long_text_body(g, text, fault) ==
  Advance(long_text_lines(setFont(g, g.MAIN_FONT),
                          wrap_text(text, g.width - 2 * SideMargin, g.MAIN_FONT),
                          fault),
          ParagraphPostGap)

\* entry of long_text: the name, the cursor, the page number (w), and the text
\* argument after the name (x = 0 for None, 1 for a text)
CallText(g, name, text) ==
  Emit(g, Ev("call", "op", IF text.some THEN 1 ELSE 0, g.y_position, g.page_number, 0,
             IF text.some THEN <<name>> \o text.val ELSE <<name>>, NoFont))

\* long_text(text); text = [some, val], some = FALSE for None
long_text(g, text, fault) ==
  IF ~text.some THEN CallText(g, "long_text", text)
  ELSE long_text_body(Advance(CallText(g, "long_text", text), ParagraphPreGap), text.val, fault)

-----------------------------------------------------------------------------
(* Image placement *)

None == [some |-> FALSE, val |-> 0]
Some(v) == [some |-> TRUE, val |-> v]

\* an image file: native width and height, and whether ImageReader can read it
Image(w, h, ok) == [w |-> w, h |-> h, ok |-> ok]

IsPortrait_or_square(img) == img.h >= img.w

\* img_height > img_width
IsPortrait(img) == img.h > img.w

\* canvas.rect(border_x, border_y, border_w, border_h): the rectangle around the
\* image, filled (role "fill") or stroked (role "stroke") in the color of the canvas
border_rect(g, role, x, y, width, height) ==
  Emit(g, Ev("rect", role, x - g.photo_padding, y - g.photo_padding,
             width + (g.photo_padding * 2), height + (g.photo_padding * 2),
             <<IF role = "fill" THEN g.canvas.gs.fill ELSE g.canvas.gs.stroke>>, NoFont))

\* canvas.drawImage(image, x, y, width=width, height=height)
drawImage(g, img, x, y, width, height) ==
  MarkContent(Emit(g, Ev("drawImage", "content", x, y, width, height, <<img.w, img.h>>, NoFont)))

\* _draw_image_with_border(image, x, y, width, height): saveState, the white
\* rectangle, the image, the black border, restoreState
draw_image_with_border(g, img, x, y, width, height) ==
  CHOOSE r \in
    {restoreState(p3) :
       p3 \in {border_rect(setStrokeColorRGB(setLineWidth(p2, g.photo_border_width), "black"),
                           "stroke", x, y, width, height) :
         p2 \in {drawImage(p1, img, x, y, width, height) :
           p1 \in {border_rect(setFillColorRGB(saveState(g), "white"),
                               "fill", x, y, width, height)}}}} : TRUE

photo_check_late(y, draw_height) == y < BottomMargin

\* if self.y_position - draw_height < 50: of photo and photo_side_by_side
photo_check(y, draw_height) == y - draw_height < BottomMargin

photo_size_no_override(g, img, photo_width, photo_height) ==
  LET portrait == IsPortrait(img)
      w0 == IF portrait THEN (g.portrait_height * img.w) \div img.h ELSE g.landscape_width
      h1 == IF portrait THEN g.portrait_height ELSE (w0 * img.h) \div img.w
      max_width == g.width - 2 * SideMargin
  IN IF w0 > max_width
     THEN [w |-> max_width, h |-> (h1 * max_width) \div w0]
     ELSE [w |-> w0, h |-> h1]

photo_size_width_only(g, img, photo_width, photo_height) ==
  LET portrait == IsPortrait(img)
      h0 == IF portrait
            THEN (IF photo_height.some THEN photo_height.val ELSE g.portrait_height)
            ELSE 0
      w0 == IF portrait THEN (h0 * img.w) \div img.h
            ELSE (IF photo_width.some THEN photo_width.val ELSE g.landscape_width)
      h1 == IF portrait THEN h0 ELSE (w0 * img.h) \div img.w
      max_width == g.width - 2 * SideMargin
  IN IF w0 > max_width THEN [w |-> max_width, h |-> h1] ELSE [w |-> w0, h |-> h1]

\* the draw size of photo(): orientation default or override, capped to the usable width
photo_size(g, img, photo_width, photo_height) ==
  LET portrait == IsPortrait(img)
      h0 == IF portrait
            THEN (IF photo_height.some THEN photo_height.val ELSE g.portrait_height)
            ELSE 0
      w0 == IF portrait THEN (h0 * img.w) \div img.h
            ELSE (IF photo_width.some THEN photo_width.val ELSE g.landscape_width)
      h1 == IF portrait THEN h0 ELSE (w0 * img.h) \div img.w
      max_width == g.width - 2 * SideMargin
  IN IF w0 > max_width
     THEN [w |-> max_width, h |-> (h1 * max_width) \div w0]
     ELSE [w |-> w0, h |-> h1]

\* if self.y_position - draw_height < 50: self.new_page()
ensure_photo(g, draw_height, fault) ==
  IF photo_check(g.y_position, draw_height) THEN new_page(g, fault) ELSE g

photo_draw(g, img, centered, size) ==
  Advance(draw_image_with_border(g, img,
                                 IF centered THEN (g.width - size.w) \div 2 ELSE SideMargin,
                                 g.y_position - size.h, size.w, size.h),
          size.h + PhotoGap)

photo_place(g, img, centered, size, fault) ==
  CHOOSE r \in {photo_draw(p, img, centered, size) :
                  p \in {ensure_photo(g, size.h, fault)}} : TRUE

Raise(g, exc) == [g EXCEPT !.raised = exc]

\* entry of photo / photo_side_by_side: the name, the cursor, and the photo_width
\* and photo_height arguments (0 for None)
CallSized(g, name, photo_width, photo_height) ==
  Emit(g, Ev("call", "op", 0, g.y_position,
             IF photo_width.some THEN photo_width.val ELSE 0,
             IF photo_height.some THEN photo_height.val ELSE 0, <<name>>, NoFont))

photo(g, img, centered, photo_width, photo_height, fault) ==
  IF ~img.ok THEN Raise(CallSized(g, "photo", photo_width, photo_height), "ImageUnreadable")
  ELSE CHOOSE r \in
         {photo_place(p, img, centered, size, fault) :
            p \in {CallSized(g, "photo", photo_width, photo_height)},
            size \in {photo_size(g, img, photo_width, photo_height)}} : TRUE

Max(a, b) == IF a >= b THEN a ELSE b

\* the sizes of photo_side_by_side for two portrait images
pair_size(g, img1, img2, photo_height, gap) ==
  LET target_height == IF photo_height.some THEN photo_height.val ELSE g.portrait_height
      w1 == (target_height * img1.w) \div img1.h
      w2 == (target_height * img2.w) \div img2.h
      total_width == w1 + gap + w2
      max_width == g.width - 2 * SideMargin
  IN IF total_width > max_width
     THEN [w1 |-> (w1 * max_width) \div total_width,
           h1 |-> (target_height * max_width) \div total_width,
           w2 |-> (w2 * max_width) \div total_width,
           h2 |-> (target_height * max_width) \div total_width,
           total_width |-> max_width]
     ELSE [w1 |-> w1, h1 |-> target_height, w2 |-> w2, h2 |-> target_height,
           total_width |-> total_width]

pair_x_left(g, centered, s) ==
  IF centered THEN (g.width - s.total_width) \div 2 ELSE SideMargin

pair_draw_first_only(g, img1, img2, centered, s, gap) ==
  [draw_image_with_border(g, img1, pair_x_left(g, centered, s),
                          g.y_position - s.h1, s.w1, s.h1)
   EXCEPT !.y_position = g.y_position - Max(s.h1, s.h2) - PhotoGap]

\* the two draws of photo_side_by_side, tops aligned at the cursor, and the advance
\* (p is the generator as the first draw leaves it)
pair_draw(g, img1, img2, centered, s, gap) ==
  CHOOSE r \in
    {[draw_image_with_border(p, img2, pair_x_left(g, centered, s) + s.w1 + gap,
                             g.y_position - s.h2, s.w2, s.h2)
      EXCEPT !.y_position = g.y_position - Max(s.h1, s.h2) - PhotoGap] :
       p \in {draw_image_with_border(g, img1, pair_x_left(g, centered, s),
                                     g.y_position - s.h1, s.w1, s.h1)}} : TRUE

pair_place(g, img1, img2, centered, s, gap, fault) ==
  CHOOSE r \in {pair_draw(p, img1, img2, centered, s, gap) :
                  p \in {ensure_photo(g, Max(s.h1, s.h2), fault)}} : TRUE

\* the second photo() of the stacked fallback, not reached when the first raised
photo_after(p, img, centered, photo_height) ==
  IF p.raised # "" THEN p ELSE photo(p, img, centered, None, photo_height, NoFault)

gap_of(g, gap_arg) == IF gap_arg.some THEN gap_arg.val ELSE g.side_by_side_gap

photo_side_by_side(g, img1, img2, centered, photo_height, gap_arg, fault) ==
  IF ~img1.ok \/ ~img2.ok
  THEN Raise(CallSized(g, "photo_side_by_side", None, photo_height), "ImageUnreadable")
  ELSE IF ~(IsPortrait(img1) /\ IsPortrait(img2))
  THEN photo_after(photo(CallSized(g, "photo_side_by_side", None, photo_height), img1,
                         centered, None, photo_height, fault),
                   img2, centered, photo_height)
  ELSE CHOOSE r \in
         {pair_place(p, img1, img2, centered, s, gap_of(g, gap_arg), fault) :
            p \in {CallSized(g, "photo_side_by_side", None, photo_height)},
            s \in {pair_size(g, img1, img2, photo_height, gap_of(g, gap_arg))}} : TRUE

-----------------------------------------------------------------------------
(* Input data: the trips, steps, comments and photos the model renders *)

EmojiFont == <<"TTF-emoji", 12>>     \* MAIN_FONT after register_font

TripNames == {NoText, <<"a">>, <<EAcute>>}
StepNames == {<<"a">>, <<Emoji>>}
DateRange == <<"01-01-2024", Space, "-", Space, "02-01-2024">>
DateLine == <<"Datum:", Space, "01-01-2024">>
LocationLines == {<<"Ort:", Space, "a">>, <<"Ort:", Space, LongWord>>}
\* weather_text of _format_weather; NoText: no weather line
WeatherTexts == {NoText, <<Emoji, Space, "a">>, <<MidWord, "i", "i">>, <<MidWord, "a">>}

\* a paragraph of ParaLines lines: "a", then newline characters only
LongPara == [k \in 1..ParaLines |-> IF k = 1 THEN "a" ELSE Newline]

Descriptions == {None, Some(<<"a">>), Some(<<LongWord, Space, LongWord>>), Some(LongPara)}
CommentNames == {<<"a">>, <<EAcute>>}
CommentTexts == {Some(<<"a">>), Some(LongPara)}

Landscape == Image(5, 3, TRUE)
Portrait == Image(3, 5, TRUE)
WidePortrait == Image(9, 10, TRUE)
Square == Image(4, 4, TRUE)
Unreadable == Image(3, 5, FALSE)
Images == {Landscape, Portrait, WidePortrait, Square, Unreadable}

\* the step being rendered: comments placed, number of photos, photos looked at
\* and not placed yet; and, of the last turn of the photo loop, the value of i it
\* started from (from) and the photos photos[from], ... it moved past (taken)
NoStep == [comments |-> 0, nphotos |-> 0, photos |-> <<>>, from |-> 0, taken |-> <<>>]

-----------------------------------------------------------------------------
(* The PDFGenerator object and generate_pdf *)

\* PDFGenerator.__init__(output, emoji_font_path, portrait_height, ...)
NewGenerator(main_font, portrait_height) ==
  [y_position |-> PageHeight - TopMargin,
   width |-> PageWidth,
   height |-> PageHeight,
   portrait_height |-> portrait_height,
   landscape_width |-> DefaultLandscapeWidth,
   side_by_side_gap |-> DefaultSideBySideGap,
   photo_padding |-> DefaultPhotoPadding,
   photo_border_width |-> DefaultPhotoBorderWidth,
   MAIN_FONT |-> main_font,
   canvas |-> NoCanvas,
   page_number |-> 0,            \* 0: the attribute is not set yet
   current_trip_name |-> NoText,
   total_steps |-> 0,
   current_step |-> 0,
   raised |-> "",                \* the exception that left generate_pdf, if any
   faults |-> 0,                 \* canvas failures injected so far
   ev |-> <<>>]

Init ==
  /\ gen \in {NewGenerator(f, DefaultPortraitHeight) : f \in {MAIN_FONT_DEFAULT, EmojiFont}}
  /\ pc = "idle"
  /\ runs = 0
  /\ step = NoStep
  /\ i = 0
  /\ wtext = <<>>
  /\ wmax = 0
  /\ wlines = <<>>
  /\ wpc = "unused"

Begin(g) == [g EXCEPT !.ev = <<>>]

\* the canvas failures an operation can meet: a failure needs a footer that is
\* drawn, so there is one to choose only when the operation may roll the page over
Faults(breaks) ==
  IF breaks /\ gen.faults < MaxFaults /\ ~FooterSkipped(gen) THEN FaultPoints ELSE {NoFault}

After(g, next) == IF g.raised # "" THEN "aborted" ELSE next

\* whether photo() will find too little room: the page-break test on its draw size
photo_breaks(g, img, photo_width, photo_height) ==
  img.ok /\ photo_check(g.y_position, photo_size(g, img, photo_width, photo_height).h)

\* the same for photo_side_by_side() on two portrait images
pair_breaks(g, img1, img2, photo_height, gap_arg) ==
  photo_check(g.y_position,
              Max(pair_size(g, img1, img2, photo_height, gap_of(g, gap_arg)).h1,
                  pair_size(g, img1, img2, photo_height, gap_of(g, gap_arg)).h2))

wrapVars == <<wtext, wmax, wlines, wpc>>

\* the head of generate_pdf: canvas, page number, trip name and step counters
generate_pdf_start(g, name, nsteps) ==
  [g EXCEPT !.canvas = NewCanvas,
            !.page_number = 1,
            !.current_trip_name = name,
            !.total_steps = nsteps,
            !.current_step = 0,
            !.raised = ""]

\* generate_pdf(trip) on a PDFGenerator just constructed, up to generate_title_page
GeneratePdf ==
  /\ pc = "idle"
  /\ \E name \in TripNames, nsteps \in 0..MaxSteps :
       gen' = generate_pdf_start(Begin(gen), name, nsteps)
  /\ runs' = runs + 1
  /\ pc' = "title_heading"
  /\ step' = NoStep
  /\ i' = 0
  /\ UNCHANGED wrapVars

\* generate_pdf(trip) called again on the same PDFGenerator, after an earlier call
\* returned or raised
GeneratePdfAgain ==
  /\ pc \in {"done", "aborted"}
  /\ runs < MaxRuns
  /\ \E name \in TripNames, nsteps \in 0..MaxSteps :
       gen' = generate_pdf_start(Begin(gen), name, nsteps)
  /\ runs' = runs + 1
  /\ pc' = "title_heading"
  /\ step' = NoStep
  /\ i' = 0
  /\ UNCHANGED wrapVars

\* generate_title_page: self.title_heading(trip.name)
TitleHeading ==
  /\ pc = "title_heading"
  /\ gen' = title_heading(Begin(gen), gen.current_trip_name)
  /\ pc' = "title_dates"
  /\ UNCHANGED <<runs, step, i>>
  /\ UNCHANGED wrapVars

\* generate_title_page: self.y_position -= 20; self.short_text(dates, bold, centered)
TitleDates ==
  /\ pc = "title_dates"
  /\ \E fault \in Faults(text_check(gen.y_position - TitleGap)) :
       gen' = short_text([Begin(gen) EXCEPT !.y_position = @ - TitleGap],
                         DateRange, TRUE, TRUE, fault)
  /\ pc' = "title_cover"
  /\ UNCHANGED <<runs, step, i>>
  /\ UNCHANGED wrapVars

\* generate_title_page: self.photo(trip.cover_photo_path, centered=True, photo_width=500)
TitleCover ==
  /\ pc = "title_cover"
  /\ \E img \in Images :
       \E fault \in Faults(photo_breaks(gen, img, Some(CoverWidth), None)) :
         gen' = photo(Begin(gen), img, TRUE, Some(CoverWidth), None, fault)
  /\ pc' = After(gen', "steps")
  /\ UNCHANGED <<runs, step, i>>
  /\ UNCHANGED wrapVars

\* the loop of generate_pdf: self.current_step = i; generate_step_pages: self.new_page()
StepNewPage ==
  /\ pc = "steps"
  /\ gen.current_step < gen.total_steps
  /\ \E fault \in Faults(TRUE) :
       gen' = new_page(Call([Begin(gen) EXCEPT !.current_step = @ + 1], "new_page"), fault)
  /\ pc' = "heading"
  /\ step' = NoStep
  /\ UNCHANGED <<runs, i>>
  /\ UNCHANGED wrapVars

\* generate_step_pages: self.heading(step.name)
StepHeading ==
  /\ pc = "heading"
  /\ \E text \in StepNames, fault \in Faults(text_check(gen.y_position)) :
       gen' = heading(Begin(gen), text, fault)
  /\ pc' = "location"
  /\ UNCHANGED <<runs, step, i>>
  /\ UNCHANGED wrapVars

\* generate_step_pages: the location line, with the weather on the right when there is one
StepLocation ==
  /\ pc = "location"
  /\ \E left \in LocationLines, weather_text \in WeatherTexts,
        fault \in Faults(text_check(gen.y_position)) :
       gen' = IF weather_text # NoText
              THEN short_text_with_right(Begin(gen), left, weather_text, FALSE, FALSE, fault)
              ELSE short_text(Begin(gen), left, FALSE, FALSE, fault)
  /\ pc' = "date"
  /\ UNCHANGED <<runs, step, i>>
  /\ UNCHANGED wrapVars

\* generate_step_pages: self.short_text(f"Datum: ...")
StepDate ==
  /\ pc = "date"
  /\ \E fault \in Faults(text_check(gen.y_position)) :
       gen' = short_text(Begin(gen), DateLine, FALSE, FALSE, fault)
  /\ pc' = "description"
  /\ UNCHANGED <<runs, step, i>>
  /\ UNCHANGED wrapVars

\* generate_step_pages: self.long_text(step.description)
StepDescription ==
  /\ pc = "description"
  /\ \E text \in Descriptions :
       \E fault \in Faults(text.some) :
         gen' = long_text(Begin(gen), text, fault)
  /\ pc' = "comments"
  /\ UNCHANGED <<runs, step, i>>
  /\ UNCHANGED wrapVars

\* for comment in step.comments: self.short_text(comment.follower.name, bold=True)
CommentName ==
  /\ pc = "comments"
  /\ step.comments < MaxComments
  /\ \E text \in CommentNames, fault \in Faults(text_check(gen.y_position)) :
       gen' = short_text(Begin(gen), text, TRUE, FALSE, fault)
  /\ pc' = "comment_text"
  /\ step' = [step EXCEPT !.comments = @ + 1]
  /\ UNCHANGED <<runs, i>>
  /\ UNCHANGED wrapVars

\* for comment in step.comments: self.long_text(comment.text)
CommentText ==
  /\ pc = "comment_text"
  /\ \E text \in CommentTexts :
       \E fault \in Faults(text.some) :
         gen' = long_text(Begin(gen), text, fault)
  /\ pc' = "comments"
  /\ UNCHANGED <<runs, step, i>>
  /\ UNCHANGED wrapVars

\* the comments are exhausted: photos = step.photos; i = 0.  The number of photos
\* is fixed here; each photo is read from the step when the loop first looks at it.
PhotosBegin ==
  /\ pc = "comments"
  /\ \E n \in 0..MaxPhotos : step' = [step EXCEPT !.nphotos = n, !.photos = <<>>]
  /\ i' = 0
  /\ pc' = "photos"
  /\ gen' = Begin(gen)
  /\ UNCHANGED runs
  /\ UNCHANGED wrapVars

\* the native sizes of the images the calls g.ev drew, in order
SizesDrawn(g) ==
  [k \in 1..Len(SelectSeq(g.ev, LAMBDA e : e.op = "drawImage")) |->
     SelectSeq(g.ev, LAMBDA e : e.op = "drawImage")[k].arg]

\* what one iteration of the photo loop looks at: photos[i] and, if i + 1 < len(photos),
\* photos[i + 1]; step.photos holds the one an earlier iteration looked at already
Window ==
  {w \in SeqsUpTo(Images, 2) :
     /\ Len(w) = (IF i + 1 < step.nphotos THEN 2 ELSE 1)
     /\ SubSeq(w, 1, Len(step.photos)) = step.photos}

IsPair_unprobed(w) ==
  /\ Len(w) = 2
  /\ IsPortrait(w[1]) /\ IsPortrait(w[2])

\* the pairing decision of the photo loop: there is a next photo, both images
\* are probed without error and both are portrait
IsPair(w) ==
  /\ Len(w) = 2
  /\ w[1].ok /\ w[2].ok
  /\ IsPortrait(w[1]) /\ IsPortrait(w[2])

\* while i < len(photos): two portrait photos side by side; i += 2
PhotoPair ==
  /\ pc = "photos"
  /\ i < step.nphotos
  /\ \E w \in Window :
       /\ IsPair(w)
       /\ step' = [step EXCEPT !.photos = <<>>, !.from = i, !.taken = w]
       /\ \E fault \in Faults(pair_breaks(gen, w[1], w[2], None, None)) :
            gen' = photo_side_by_side(Begin(gen), w[1], w[2], TRUE, None, None, fault)
  /\ i' = i + 2
  /\ pc' = "photos"
  /\ UNCHANGED runs
  /\ UNCHANGED wrapVars

\* while i < len(photos): a single image, centered; i += 1.  An image that cannot
\* be read raises out of generate_pdf, whose locals are then gone.
PhotoSingle ==
  /\ pc = "photos"
  /\ i < step.nphotos
  /\ \E w \in Window :
       /\ ~IsPair(w)
       /\ step' = (IF w[1].ok
                   THEN [step EXCEPT !.photos = Tail(w), !.from = i, !.taken = <<w[1]>>]
                   ELSE NoStep)
       /\ i' = (IF w[1].ok THEN i + 1 ELSE 0)
       /\ \E fault \in Faults(photo_breaks(gen, w[1], None, None)) :
            gen' = photo(Begin(gen), w[1], TRUE, None, None, fault)
  /\ pc' = After(gen', "photos")
  /\ UNCHANGED runs
  /\ UNCHANGED wrapVars

\* the photo loop ends; generate_step_pages returns to the loop of generate_pdf
PhotosEnd ==
  /\ pc = "photos"
  /\ i >= step.nphotos
  /\ pc' = "steps"
  /\ step' = NoStep
  /\ i' = 0
  /\ gen' = Begin(gen)
  /\ UNCHANGED runs
  /\ UNCHANGED wrapVars

\* generate_pdf after the last step: self._draw_footer()
FinalFooter ==
  /\ pc = "steps"
  /\ gen.current_step >= gen.total_steps
  /\ \E fault \in Faults(TRUE) :
       gen' = draw_footer(Call(Begin(gen), "_draw_footer"), fault)
  /\ pc' = After(gen', "save")
  /\ UNCHANGED <<runs, step, i>>
  /\ UNCHANGED wrapVars

\* generate_pdf: self.canvas.save()
Save ==
  /\ pc = "save"
  /\ gen' = save(Begin(gen))
  /\ pc' = "done"
  /\ UNCHANGED <<runs, step, i>>
  /\ UNCHANGED wrapVars

Next ==
  \/ GeneratePdf
  \/ TitleHeading
  \/ TitleDates
  \/ TitleCover
  \/ StepNewPage
  \/ StepHeading
  \/ StepLocation
  \/ StepDate
  \/ StepDescription
  \/ CommentName
  \/ CommentText
  \/ PhotosBegin
  \/ PhotoPair
  \/ PhotoSingle
  \/ PhotosEnd
  \/ FinalFooter
  \/ Save

\* one generate_pdf call on a new PDFGenerator
Spec == Init /\ [][Next]_vars

NextRerun ==
  \/ Next
  \/ GeneratePdfAgain

\* generate_pdf called up to MaxRuns times on the same PDFGenerator
SpecRerun == Init /\ [][NextRerun]_vars

-----------------------------------------------------------------------------
(* wrap_text called on its own *)

WrapChunks == {"a", Space, Newline, Sentinel, LongWord}

WrapTexts == SeqsUpTo(WrapChunks, MaxTextLen)
WrapWidths == {20, PageWidth - 2 * SideMargin}

InitWrap ==
  /\ wtext \in WrapTexts
  /\ wmax \in WrapWidths
  /\ wlines = <<>>
  /\ wpc = "ready"
  /\ gen = NewGenerator(MAIN_FONT_DEFAULT, DefaultPortraitHeight)
  /\ pc = "idle"
  /\ runs = 0
  /\ step = NoStep
  /\ i = 0

WrapText ==
  /\ wpc = "ready"
  /\ wlines' = wrap_text(wtext, wmax, MAIN_FONT_DEFAULT)
  /\ wpc' = "wrapped"
  /\ UNCHANGED <<gen, pc, runs, step, i, wtext, wmax>>

NextWrap == WrapText

SpecWrap == InitWrap /\ [][NextWrap]_vars

-----------------------------------------------------------------------------
(* photo and photo_side_by_side called on their own, on a document just started *)

\* the sizes given to the constructor: portrait_height, landscape_width
Configs ==
  {[portrait_height |-> DefaultPortraitHeight, landscape_width |-> DefaultLandscapeWidth],
   [portrait_height |-> DefaultPortraitHeight, landscape_width |-> 600],
   [portrait_height |-> 700, landscape_width |-> DefaultLandscapeWidth]}

\* self.portrait_height = float(portrait_height); self.landscape_width = float(landscape_width)
Configure(g, c) ==
  [g EXCEPT !.portrait_height = c.portrait_height, !.landscape_width = c.landscape_width]

\* the photo_width and photo_height arguments: None, or a size
WidthArgs == {None, Some(CoverWidth), Some(600)}
HeightArgs == {None, Some(200), Some(700)}

InitPhoto ==
  /\ gen \in {Configure(NewGenerator(MAIN_FONT_DEFAULT, DefaultPortraitHeight), c) : c \in Configs}
  /\ pc = "new"
  /\ runs = 0
  /\ step = NoStep
  /\ i = 0
  /\ wtext = <<>>
  /\ wmax = 0
  /\ wlines = <<>>
  /\ wpc = "unused"

\* the head of generate_pdf: the canvas exists from here on
OpenDocument ==
  /\ pc = "new"
  /\ \E name \in TripNames : gen' = generate_pdf_start(Begin(gen), name, 0)
  /\ pc' = "open"
  /\ UNCHANGED <<runs, step, i>>
  /\ UNCHANGED wrapVars

\* photo(photo_path, centered, photo_width, photo_height)
PhotoCall ==
  /\ pc = "open"
  /\ \E img \in Images, centered \in BOOLEAN, photo_width \in WidthArgs, photo_height \in HeightArgs :
       gen' = photo(Begin(gen), img, centered, photo_width, photo_height, NoFault)
  /\ pc' = After(gen', "placed")
  /\ UNCHANGED <<runs, step, i>>
  /\ UNCHANGED wrapVars

\* photo_side_by_side(photo_path1, photo_path2, centered, photo_height, gap)
PairCall ==
  /\ pc = "open"
  /\ \E img1 \in Images, img2 \in Images, centered \in BOOLEAN, photo_height \in HeightArgs :
       gen' = photo_side_by_side(Begin(gen), img1, img2, centered, photo_height, None, NoFault)
  /\ pc' = After(gen', "placed")
  /\ UNCHANGED <<runs, step, i>>
  /\ UNCHANGED wrapVars

NextPhoto ==
  \/ OpenDocument
  \/ PhotoCall
  \/ PairCall

SpecPhoto == InitPhoto /\ [][NextPhoto]_vars

-----------------------------------------------------------------------------
(* generate_step_pages called on its own, on a document just started *)

\* a PDFGenerator constructed with the default sizes and no emoji font
InitStep ==
  /\ gen = NewGenerator(MAIN_FONT_DEFAULT, DefaultPortraitHeight)
  /\ pc = "new"
  /\ runs = 0
  /\ step = NoStep
  /\ i = 0
  /\ wtext = <<>>
  /\ wmax = 0
  /\ wlines = <<>>
  /\ wpc = "unused"

\* generate_step_pages(step): self.new_page()
StepCall ==
  /\ pc = "open"
  /\ \E fault \in Faults(TRUE) : gen' = new_page(Call(Begin(gen), "new_page"), fault)
  /\ pc' = "heading"
  /\ step' = NoStep
  /\ UNCHANGED <<runs, i>>
  /\ UNCHANGED wrapVars

\* one turn of the while loop over the photos of the step, or its exit
PhotoLoop == PhotoPair \/ PhotoSingle \/ PhotosEnd

NextStep ==
  \/ OpenDocument
  \/ StepCall
  \/ StepHeading
  \/ StepLocation
  \/ StepDate
  \/ StepDescription
  \/ CommentName
  \/ CommentText
  \/ PhotosBegin
  \/ PhotoPair
  \/ PhotoSingle
  \/ PhotosEnd

\* one generate_step_pages call; the photo loop is sequential code that waits for
\* nothing, so a turn it can take is taken
SpecStep == InitStep /\ [][NextStep]_vars /\ WF_vars(PhotoLoop)

-----------------------------------------------------------------------------
(* The canvas calls of the operation that ran last, as the claims read them *)

Top == PageHeight - TopMargin

\* the operation the last action called ("" before any)
OpName == IF gen.ev # <<>> /\ gen.ev[1].op = "call" THEN gen.ev[1].arg[1] ELSE ""

\* the entries of operations among the events
Calls == {k \in 1..Len(gen.ev) : gen.ev[k].op = "call"}

CallName(k) == gen.ev[k].arg[1]

\* the last event of the operation entered at event k (the next entry ends it)
SegEnd(k) ==
  IF \E j \in (k + 1)..Len(gen.ev) : gen.ev[j].op = "call"
  THEN (CHOOSE j \in (k + 1)..Len(gen.ev) :
          /\ gen.ev[j].op = "call"
          /\ \A m \in (k + 1)..(j - 1) : gen.ev[m].op # "call") - 1
  ELSE Len(gen.ev)

IsDraw(e) == (e.op = "drawString" /\ e.role = "content") \/ e.op = "drawImage"

\* the content draws and the page boundaries of the operation entered at k
Draws(k) == {j \in k..SegEnd(k) : IsDraw(gen.ev[j])}
Pages(k) == {j \in k..SegEnd(k) : gen.ev[j].op = "showPage"}

FirstDraw(k) == CHOOSE j \in Draws(k) : \A m \in Draws(k) : j <= m

\* the upper edge of a draw: the baseline of a text, the top of an image
DrawTop(j) == gen.ev[j].y + gen.ev[j].h

\* the height of the block the operation entered at k drew (0 for a text line)
DrawnHeight(k) ==
  CHOOSE h \in {gen.ev[j].h : j \in Draws(k)} : \A j \in Draws(k) : gen.ev[j].h <= h

TextOps == {"heading", "short_text", "short_text_with_right", "long_text_line"}
PhotoOps == {"photo", "photo_side_by_side"}

\* the entries of the operations that check for a page break and then draw
CheckedCalls == {k \in Calls : CallName(k) \in TextOps \cup PhotoOps /\ Draws(k) # {}}

\* the line advance of a text operation
LineAdvance(k) == IF CallName(k) = "heading" THEN HeadingAdvance ELSE LineHeight

\* exactly one page boundary, before the first draw, which is then at the top
BrokeOnce(k) ==
  /\ Cardinality(Pages(k)) = 1
  /\ \A j \in Pages(k) : j < FirstDraw(k)
  /\ DrawTop(FirstDraw(k)) = Top

-----------------------------------------------------------------------------
(* Claims about the cursor and the page break *)

\* C1 (as claimed): immediately after every placement operation of generate_pdf,
\* and after each line of long_text, the cursor is within [50, 762].
C1_CursorInRange ==
  /\ (OpName \in TextOps \cup PhotoOps \cup {"title_heading", "long_text"} /\ gen.raised = "")
       => gen.y_position \in BottomMargin..Top
  /\ \A k \in Calls :
       CallName(k) = "long_text_line" =>
         gen.ev[FirstDraw(k)].y - LineHeight \in BottomMargin..Top

\* C1 (amended): the cursor never exceeds 762; the first text of every operation
\* that checks for a page break (heading, short_text, short_text_with_right, each
\* line of long_text) is drawn at a baseline within [50, 762]; an image not higher
\* than 712 is drawn between 50 and 762.  (The cursor itself may be below 50 after
\* the operation.)
C1_CheckedDrawsInRange ==
  /\ gen.y_position <= Top
  /\ \A k \in CheckedCalls :
       /\ CallName(k) \in TextOps => gen.ev[FirstDraw(k)].y \in BottomMargin..Top
       /\ CallName(k) \in PhotoOps =>
            \A j \in Draws(k) :
              gen.ev[j].h <= Top - BottomMargin =>
                gen.ev[j].y >= BottomMargin /\ DrawTop(j) <= Top

\* C1 witness: a text operation drew within the range and left the cursor below
\* the bottom margin
C1_Witness ==
  \E k \in CheckedCalls :
    /\ CallName(k) \in TextOps
    /\ gen.ev[FirstDraw(k)].y \in BottomMargin..Top
    /\ gen.y_position < BottomMargin
    /\ gen.raised = ""

\* C2 (as claimed): an operation that needs height h (its line advance, or the
\* height of its image block) emits exactly one page boundary and draws at the top
\* when cursor - h < 50 at its start, and no page boundary otherwise.
C2_BreakIffNoRoom ==
  \A k \in CheckedCalls :
    IF gen.ev[k].y - (IF CallName(k) \in TextOps THEN LineAdvance(k) ELSE DrawnHeight(k))
         < BottomMargin
    THEN BrokeOnce(k)
    ELSE Pages(k) = {}

\* C2 (amended): a text operation (heading, short_text, short_text_with_right, each
\* line of long_text) emits exactly one page boundary and draws at 762 when the
\* cursor is below 50 at its start, and otherwise emits none and draws at the
\* cursor; photo and photo_side_by_side do so when cursor - drawn height < 50.
C2_BreakIffBelowMargin ==
  \A k \in CheckedCalls :
    IF gen.ev[k].y - (IF CallName(k) \in TextOps THEN 0 ELSE DrawnHeight(k)) < BottomMargin
    THEN BrokeOnce(k)
    ELSE Pages(k) = {} /\ DrawTop(FirstDraw(k)) = gen.ev[k].y

\* C2 witness: a line of long_text entered below the margin, broke the page once
\* and was drawn at the top
C2_Witness ==
  \E k \in CheckedCalls :
    /\ CallName(k) = "long_text_line"
    /\ gen.ev[k].y < BottomMargin
    /\ BrokeOnce(k)

-----------------------------------------------------------------------------
(* Claims about new_page and the footer *)

PageLabel(n) == <<"Seite", Space>> \o Digits(n)

\* the page boundaries among the events: showPage, and save for the last page
ShownPages == {j \in 1..Len(gen.ev) : gen.ev[j].op = "showPage"}
ClosedPages == {j \in 1..Len(gen.ev) : gen.ev[j].op \in {"showPage", "save"}}

\* the footer of the page closed at event j was cut short by a canvas failure
FooterFailed(j) ==
  /\ gen.ev[j].page.footers # <<>>
  /\ gen.ev[j].page.footers[1].parts < FooterParts

\* C3 (as claimed): a new_page call after generate_pdf has started (here the one
\* that opens a step, with no canvas failure) first draws the footer carrying the
\* number of the page being left, then emits showPage, increments page_number by
\* exactly 1 and resets the cursor to 762; nothing else of the generator changes
\* (current_step was advanced by the loop of generate_pdf before the call).
C3_NewPageOrdering ==
  [][(pc = "steps" /\ pc' = "heading" /\ gen'.faults = gen.faults) =>
       /\ \E j \in 1..(Len(gen'.ev) - 1) :
            /\ gen'.ev[j].role = "footer"
            /\ gen'.ev[j].arg = PageLabel(gen.page_number)
       /\ gen'.ev[Len(gen'.ev)].op = "showPage"
       /\ gen'.page_number = gen.page_number + 1
       /\ gen'.y_position = Top
       /\ gen'.width = gen.width /\ gen'.height = gen.height
       /\ gen'.current_trip_name = gen.current_trip_name
       /\ gen'.total_steps = gen.total_steps
       /\ gen'.current_step = gen.current_step + 1
       /\ gen'.raised = gen.raised]_vars

\* C4: when the trip has a non-empty title, every page closed by showPage or save
\* carries exactly one footer, drawn after all content of the page; a footer
\* that no canvas failure cut short shows the label "Seite k" on the k-th page;
\* and a finished document has as many pages as the last label says.
C4_FooterCoverage ==
  gen.current_trip_name # NoText =>
    /\ \A j \in ClosedPages :
         /\ Len(gen.ev[j].page.footers) = 1
         /\ ~gen.ev[j].page.late
         /\ ~FooterFailed(j) => gen.ev[j].page.footers[1].label = gen.ev[j].x
         /\ FooterFailed(j) => gen.faults > 0
    /\ \A j \in ShownPages :
         ~FooterFailed(j) =>
           \E m \in 1..(j - 1) :
             gen.ev[m].role = "footer" /\ gen.ev[m].arg = PageLabel(gen.ev[j].x)
    /\ pc = "done" => gen.canvas.shown = gen.page_number

\* C4 witness: a finished document of at least three pages with a title, the
\* last page closed with its complete footer
C4_Witness ==
  /\ pc = "done"
  /\ gen.current_trip_name # NoText
  /\ \E j \in ClosedPages :
       /\ gen.ev[j].op = "save"
       /\ gen.ev[j].x >= 3
       /\ gen.ev[j].page.content
       /\ ~FooterFailed(j)
       /\ gen.ev[j].page.footers[1].label = gen.ev[j].x

\* the draws that follow event j
DrawsAfter(j) == {m \in (j + 1)..Len(gen.ev) : IsDraw(gen.ev[m])}

\* the rollover at event j completed: the page counter is one more than the
\* number of the page left, and the cursor was reset to 762 (the next draw, if
\* the operation makes one, is at the top)
RolloverComplete(j) ==
  /\ gen.ev[j].page.footers # <<>> => gen.page_number = gen.ev[j].page.footers[1].label + 1
  /\ gen.page_number = gen.ev[j].x + 1
  /\ IF DrawsAfter(j) = {} THEN gen.y_position = Top
     ELSE \A m \in DrawsAfter(j) : (\A n \in DrawsAfter(j) : m <= n) => DrawTop(m) = Top

\* C5: a footer failure inside new_page is not raised, and every page boundary
\* completes its rollover whether the footer of the page failed or not: showPage
\* emitted, page_number incremented by 1, cursor reset to 762.
C5_FooterFailureSwallowed ==
  /\ (OpName # "_draw_footer" /\ gen.canvas.page.footers # <<>>) =>
       (LastFooter(gen).parts = FooterParts /\ gen.raised # "FooterDrawFailure")
  /\ \A j \in ShownPages :
       (\A m \in ShownPages : m <= j) => RolloverComplete(j)

\* C5 witness: a page was rolled over although its footer failed part-way
C5_Witness ==
  \E j \in ShownPages :
    /\ FooterFailed(j)
    /\ gen.ev[j].page.footers[1].parts > 0
    /\ RolloverComplete(j)
    /\ gen.raised = ""

\* C6 (as claimed): a failure while drawing a footer, the final one included, is
\* suppressed: generate_pdf goes on to canvas.save.
C6_FooterFailureNeverBlocks ==
  /\ gen.raised # "FooterDrawFailure"
  /\ OpName = "_draw_footer" => pc = "save"

\* C7 (as claimed): when generate_pdf starts placing the title page, also on a
\* second call on the same PDFGenerator, page_number is 1, the cursor is at 762
\* and current_step is 0.
C7_StartResetsCursor ==
  pc = "title_heading" =>
    /\ gen.page_number = 1
    /\ gen.y_position = Top
    /\ gen.current_step = 0

-----------------------------------------------------------------------------
(* Claims about the text flow *)

LastDraw(k) == CHOOSE j \in Draws(k) : \A m \in Draws(k) : m <= j

LeftEnd(k) == SideMargin + stringWidth(gen.ev[FirstDraw(k)].arg, gen.ev[FirstDraw(k)].font)
RightStart(k) ==
  gen.width - SideMargin - stringWidth(gen.ev[LastDraw(k)].arg, gen.ev[LastDraw(k)].font)

\* C10: short_text_with_right draws the left text at the left margin and the
\* right text right-aligned; on the same line, moving the cursor down by 20, when
\* right start > left end + 8; one line lower, moving the cursor down by 40, when
\* right start <= left end + 8.
C10_CollisionPolicy ==
  \A k \in Calls :
    CallName(k) = "short_text_with_right" =>
      /\ Cardinality(Draws(k)) = 2
      /\ gen.ev[FirstDraw(k)].x = SideMargin
      /\ gen.ev[LastDraw(k)].x = RightStart(k)
      /\ IF RightStart(k) > LeftEnd(k) + OverlapBuffer
         THEN /\ gen.ev[LastDraw(k)].y = gen.ev[FirstDraw(k)].y
              /\ gen.y_position = gen.ev[FirstDraw(k)].y - LineHeight
         ELSE /\ gen.ev[LastDraw(k)].y = gen.ev[FirstDraw(k)].y - LineHeight
              /\ gen.y_position = gen.ev[FirstDraw(k)].y - 2 * LineHeight

\* C10 witness: the right text starts exactly 8 after the end of the left text
\* and is drawn one line lower
C10_Witness ==
  \E k \in Calls :
    /\ CallName(k) = "short_text_with_right"
    /\ RightStart(k) = LeftEnd(k) + OverlapBuffer
    /\ gen.ev[LastDraw(k)].y = gen.ev[FirstDraw(k)].y - LineHeight

-----------------------------------------------------------------------------
(* Word sequences, for the claims about wrap_text *)

WordsOf(text) == [k \in 1..Len(Split(text)) |-> Str(Split(text)[k])]

RECURSIVE JoinLines(_)
JoinLines(lines) ==
  IF lines = <<>> THEN <<>>
  ELSE IF Len(lines) = 1 THEN lines[1]
  ELSE lines[1] \o <<Space>> \o JoinLines(Tail(lines))

IsSingleWord(line) == line # <<>> /\ \A k \in 1..Len(line) : line[k] \notin Whitespace

\* C8: the lines returned by wrap_text, joined with single spaces and split on
\* whitespace, are exactly the whitespace-separated words of the input text.
C8_WordsPreserved ==
  wpc = "wrapped" => WordsOf(JoinLines(wlines)) = WordsOf(wtext)

\* C9: every line returned by wrap_text is at most max_width wide, except a line
\* that is one single word which alone is wider than max_width.
C9_LineWidthBound ==
  wpc = "wrapped" =>
    \A k \in 1..Len(wlines) :
      \/ stringWidth(wlines[k], MAIN_FONT_DEFAULT) <= wmax
      \/ /\ IsSingleWord(wlines[k])
         /\ stringWidth(wlines[k], MAIN_FONT_DEFAULT) > wmax

\* C9 witness: a wrap that broke a line for width, with a line of several words
\* and a line that is one over-wide word
C9_Witness ==
  /\ wpc = "wrapped"
  /\ \E k \in 1..Len(wlines) :
       /\ ~IsSingleWord(wlines[k])
       /\ wlines[k] # <<>>
       /\ stringWidth(wlines[k], MAIN_FONT_DEFAULT) <= wmax
  /\ \E k \in 1..Len(wlines) :
       /\ IsSingleWord(wlines[k])
       /\ stringWidth(wlines[k], MAIN_FONT_DEFAULT) > wmax

-----------------------------------------------------------------------------
(* Claims about the photos of a step *)

\* the images drawn among the events ev, in order
ImagesOf(ev) == SelectSeq(ev, LAMBDA e : e.op = "drawImage")

\* the native size of the image a drawImage event drew is portrait
DrawnPortrait(e) == e.arg[2] > e.arg[1]

\* two drawImage events form one side-by-side block: same top, e1 left of e2
SideBySide(e1, e2) == e1.y + e1.h = e2.y + e2.h /\ e1.x + e1.w <= e2.x

\* C11: in the photo loop with readable images, photos i and i+1 are placed as
\* one side-by-side block exactly when both are portrait (and then the scan moves
\* to i+2); otherwise photo i is placed alone and the scan goes on from i+1 with
\* the photo it has looked at; a side-by-side block never holds a landscape or
\* square image.
C11_PairingPolicy ==
  [][(pc = "photos" /\ i < step.nphotos /\ gen'.raised = "") =>
       /\ step.photos # <<>> =>
            ImagesOf(gen'.ev)[1].arg = <<step.photos[1].w, step.photos[1].h>>
       /\ \/ /\ Len(ImagesOf(gen'.ev)) = 2
             /\ DrawnPortrait(ImagesOf(gen'.ev)[1])
             /\ DrawnPortrait(ImagesOf(gen'.ev)[2])
             /\ SideBySide(ImagesOf(gen'.ev)[1], ImagesOf(gen'.ev)[2])
             /\ i + 1 < step.nphotos
             /\ i' = i + 2
          \/ /\ Len(ImagesOf(gen'.ev)) = 1
             /\ i' = i + 1
             /\ pc' = "photos"
             /\ i + 1 < step.nphotos =>
                  /\ Len(step'.photos) = 1
                  /\ step'.photos[1].ok =>
                       ~(DrawnPortrait(ImagesOf(gen'.ev)[1]) /\ IsPortrait(step'.photos[1]))]_vars

\* a portrait was placed alone because the photo after it is a readable landscape
C11_Witness ==
  /\ pc = "photos"
  /\ OpName = "photo"
  /\ Len(ImagesOf(gen.ev)) = 1
  /\ DrawnPortrait(ImagesOf(gen.ev)[1])
  /\ Len(step.photos) = 1
  /\ step.photos[1].ok
  /\ step.photos[1].w > step.photos[1].h

UsableWidth == PageWidth - 2 * SideMargin

\* the width of the image drawn by e at the height target, before any scaling
WidthAt(e, target) == (target * e.arg[1]) \div e.arg[2]

\* the last action placed a pair whose widths at the target height, with the
\* gap, exceed the usable width
WidePairPlaced ==
  /\ OpName = "photo_side_by_side"
  /\ Len(ImagesOf(gen.ev)) = 2
  /\ WidthAt(ImagesOf(gen.ev)[1], gen.portrait_height) + gen.side_by_side_gap
       + WidthAt(ImagesOf(gen.ev)[2], gen.portrait_height) > UsableWidth

\* the drawn extent of a pair: left edge of image 1 to right edge of image 2
PairExtent(e1, e2) == e2.x + e2.w - e1.x

\* C12 (as claimed): a pair wider than the usable width is scaled so that its
\* drawn extent, gap included, equals the usable width (up to the rounding of
\* the two widths), and the right image ends at or before the right margin.
C12_PairFitsUsableWidth ==
  WidePairPlaced =>
    /\ PairExtent(ImagesOf(gen.ev)[1], ImagesOf(gen.ev)[2]) <= UsableWidth
    /\ PairExtent(ImagesOf(gen.ev)[1], ImagesOf(gen.ev)[2]) >= UsableWidth - 2
    /\ ImagesOf(gen.ev)[2].x + ImagesOf(gen.ev)[2].w <= gen.width - SideMargin

\* the photo() calls among the events that drew their image
PhotoCalls == {k \in Calls : CallName(k) = "photo" /\ Draws(k) # {}}

\* the image drawn by the photo() call entered at k
Drawn(k) == gen.ev[FirstDraw(k)]

Min(a, b) == IF a <= b THEN a ELSE b

\* C13 (as claimed): an explicit photo_width, or an explicit photo_height, sets
\* the target size of photo() whatever the orientation of the image: the image
\* is drawn photo_width wide (capped to the usable width), or photo_height high
\* (when its width at that height fits the usable width).
C13_OverrideAnyOrientation ==
  \A k \in PhotoCalls :
    /\ (gen.ev[k].w > 0 /\ gen.ev[k].h = 0) =>
         Drawn(k).w = Min(gen.ev[k].w, UsableWidth)
    /\ (gen.ev[k].h > 0 /\ gen.ev[k].w = 0 /\ WidthAt(Drawn(k), gen.ev[k].h) <= UsableWidth) =>
         Drawn(k).h = gen.ev[k].h

\* the target height of a portrait image, the target width of any other image
TargetHeight(k) == IF gen.ev[k].h > 0 THEN gen.ev[k].h ELSE gen.portrait_height
TargetWidth(k) == IF gen.ev[k].w > 0 THEN gen.ev[k].w ELSE gen.landscape_width

\* C13 (amended): the override that counts is the one of the image's orientation.
\* A portrait image targets height photo_height if given, else portrait_height,
\* and a photo_width is ignored; a landscape or square image targets width
\* photo_width if given, else landscape_width, and a photo_height is ignored.
\* The drawn size is the target size, capped to the usable width.
C13_OverrideByOrientation ==
  \A k \in PhotoCalls :
    IF DrawnPortrait(Drawn(k))
    THEN IF WidthAt(Drawn(k), TargetHeight(k)) <= UsableWidth
         THEN /\ Drawn(k).h = TargetHeight(k)
              /\ Drawn(k).w = WidthAt(Drawn(k), TargetHeight(k))
         ELSE Drawn(k).w = UsableWidth
    ELSE /\ Drawn(k).w = Min(TargetWidth(k), UsableWidth)
         /\ TargetWidth(k) <= UsableWidth =>
              Drawn(k).h = (TargetWidth(k) * Drawn(k).arg[2]) \div Drawn(k).arg[1]

\* photo(portrait, photo_width=500) drew at the configured portrait height, less
\* than 500 wide
C13_Witness ==
  /\ OpName = "photo"
  /\ PhotoCalls # {}
  /\ \A k \in PhotoCalls :
       /\ gen.ev[k].w = CoverWidth
       /\ DrawnPortrait(Drawn(k))
       /\ Drawn(k).h = gen.portrait_height
       /\ Drawn(k).w < CoverWidth

\* the bordered rectangles drawn around the images of the last action
Borders == {j \in 1..Len(gen.ev) : gen.ev[j].op = "rect"}

\* C14 (as claimed): the page-break check of photo and photo_side_by_side counts
\* the padding, so the whole bordered rectangle of every drawn image (the image
\* extended by photo_padding on each side) lies between the bottom margin and
\* page height - top margin, for every image that fits a fresh page.
C14_BorderInsideMargins ==
  \A j \in Borders :
    gen.ev[j].h <= Top - BottomMargin =>
      /\ gen.ev[j].y >= BottomMargin
      /\ gen.ev[j].y + gen.ev[j].h <= Top

-----------------------------------------------------------------------------
(* Claims about fonts, paragraphs and the graphics state *)

\* the text draws of the last action (footers left out)
TextDraws == {j \in 1..Len(gen.ev) : gen.ev[j].op = "drawString" /\ gen.ev[j].role = "content"}

\* the role the last action drew its text in, as its default font: heading,
\* title heading, bold (the dates of the title page, the name of a commenter), body
RoleFont ==
  CASE OpName = "heading" -> HEADING_FONT
    [] OpName = "title_heading" -> TITLE_HEADING_FONT
    [] OpName = "short_text" /\ pc \in {"title_cover", "comment_text"} -> BOLD_FONT
    [] OTHER -> MAIN_FONT_DEFAULT

\* a fallback font was registered (register_font replaced MAIN_FONT)
FallbackRegistered == gen.MAIN_FONT # MAIN_FONT_DEFAULT

\* C15 (as claimed): a text of role R is drawn in (fallback identifier, size of
\* R) exactly when a fallback font was registered and the text has a codepoint
\* above 127, and in R's default (identifier, size) in every other case.
C15_FallbackFontRule ==
  \A j \in TextDraws :
    gen.ev[j].font = IF FallbackRegistered /\ HasNonAscii(gen.ev[j].arg)
                     THEN <<gen.MAIN_FONT[1], RoleFont[2]>>
                     ELSE RoleFont

\* C16: in the photo loop an image that cannot be read never makes a pair and
\* raises nothing while the pairing is decided: the render is aborted only by
\* photo(), the single placement of the unreadable image itself, before anything
\* is drawn; when photo i+1 is the unreadable one, photo i is placed alone, the
\* scan goes on from i+1, and the render is aborted there.
C16_UnreadableFallsBackToSingle ==
  [][(pc = "photos" /\ i < step.nphotos) =>
       /\ gen'.raised # "" =>
            /\ gen'.ev[1].arg[1] = "photo"
            /\ ImagesOf(gen'.ev) = <<>>
            /\ pc' = "aborted"
       /\ (step.photos # <<>> /\ ~step.photos[1].ok) => gen'.raised = "ImageUnreadable"
       /\ (step'.photos # <<>> /\ ~step'.photos[1].ok) =>
            /\ gen'.raised = ""
            /\ gen'.ev[1].arg[1] = "photo"
            /\ Len(ImagesOf(gen'.ev)) = 1
            /\ i' = i + 1
            /\ pc' = "photos"]_vars

\* photo i was placed alone while the loop has looked at an unreadable photo i+1
C16_Witness ==
  /\ pc = "photos"
  /\ OpName = "photo"
  /\ Len(ImagesOf(gen.ev)) = 1
  /\ DrawnPortrait(ImagesOf(gen.ev)[1])
  /\ Len(step.photos) = 1
  /\ ~step.photos[1].ok

\* the line entries of the long_text of the last action, in order of the events
LineCalls == {k \in Calls : CallName(k) = "long_text_line"}

\* the text the last long_text was given
ParagraphText == Tail(gen.ev[1].arg)

\* what the last long_text did with a text: one checked entry per wrapped line,
\* each followed by the draw of its line, with a page boundary before the draw
\* exactly when the check found the cursor below the bottom margin; and, with no
\* page boundary at all, a cursor 10 + 20 n + 20 below the cursor at entry
ParagraphPlaced ==
  LET lines == wrap_text(ParagraphText, UsableWidth, gen.MAIN_FONT) IN
  /\ Cardinality(LineCalls) = Len(lines)
  /\ Cardinality(TextDraws) = Len(lines)
  /\ \A k \in LineCalls :
       /\ Cardinality(Draws(k)) = 1
       /\ gen.ev[FirstDraw(k)].arg = lines[Cardinality({m \in LineCalls : m <= k})]
       /\ (Pages(k) # {}) <=> (gen.ev[k].y < BottomMargin)
       /\ \A j \in Pages(k) : j < FirstDraw(k)
  /\ ShownPages = {} =>
       gen.y_position = gen.ev[1].y - (ParagraphPreGap + LineHeight * Len(lines) + ParagraphPostGap)

\* C17: long_text(None) makes no canvas call and leaves the cursor and the page
\* number as they were at its entry; long_text of a text that wraps to n lines
\* checks for a page break before every line and, when no page break happens,
\* moves the cursor down by exactly 10 + 20 n + 20.
C17_ParagraphConsumption ==
  OpName = "long_text" =>
    /\ gen.ev[1].x = 0 =>
         /\ Len(gen.ev) = 1
         /\ gen.y_position = gen.ev[1].y
         /\ gen.page_number = gen.ev[1].w
    /\ gen.ev[1].x = 1 => ParagraphPlaced

\* a text of two lines was placed with no page break: the cursor moved by 70
C17_Witness ==
  /\ OpName = "long_text"
  /\ gen.ev[1].x = 1
  /\ Cardinality(LineCalls) = 2
  /\ ShownPages = {}
  /\ gen.y_position = gen.ev[1].y - 70

-----------------------------------------------------------------------------
(* Claims about the size of a single image *)

\* the photo() calls without overrides
PlainPhotoCalls == {k \in PhotoCalls : gen.ev[k].w = 0 /\ gen.ev[k].h = 0}

\* the target size of photo() with no override: the configured height for a
\* portrait image, the configured width for any other, the other dimension by
\* the native aspect ratio
PlainTarget(e) ==
  IF DrawnPortrait(e)
  THEN [w |-> WidthAt(e, gen.portrait_height), h |-> gen.portrait_height]
  ELSE [w |-> gen.landscape_width, h |-> (gen.landscape_width * e.arg[2]) \div e.arg[1]]

Abs(n) == IF n < 0 THEN 0 - n ELSE n

\* C18: photo() with no override draws a landscape or square image exactly
\* landscape_width wide when that fits the usable width; it draws any image whose
\* target width exceeds the usable width exactly that wide, with the height
\* multiplied by usable width / target width as well; and the drawn height / width
\* is the native height / width (here: up to the rounding of the quotients, less
\* than two points of height).
C18_SingleImageScaling ==
  \A k \in PlainPhotoCalls :
    /\ (~DrawnPortrait(Drawn(k)) /\ gen.landscape_width <= UsableWidth) =>
         Drawn(k).w = gen.landscape_width
    /\ PlainTarget(Drawn(k)).w > UsableWidth =>
         /\ Drawn(k).w = UsableWidth
         /\ Drawn(k).h = (PlainTarget(Drawn(k)).h * UsableWidth) \div PlainTarget(Drawn(k)).w
    /\ PlainTarget(Drawn(k)).w <= UsableWidth =>
         /\ Drawn(k).w = PlainTarget(Drawn(k)).w
         /\ Drawn(k).h = PlainTarget(Drawn(k)).h
    /\ Abs(Drawn(k).h * Drawn(k).arg[1] - Drawn(k).w * Drawn(k).arg[2]) < 2 * Drawn(k).arg[1]

\* a landscape image with a configured width beyond the usable width was drawn
\* at the usable width, its height scaled with it
C18_Witness ==
  /\ OpName = "photo"
  /\ PlainPhotoCalls # {}
  /\ \A k \in PlainPhotoCalls :
       /\ ~DrawnPortrait(Drawn(k))
       /\ gen.landscape_width > UsableWidth
       /\ Drawn(k).w = UsableWidth
       /\ Drawn(k).h < PlainTarget(Drawn(k)).h

-----------------------------------------------------------------------------
(* Claims about the graphics state and the footer being due *)

Saves == {j \in 1..Len(gen.ev) : gen.ev[j].op = "saveState"}
Restores == {j \in 1..Len(gen.ev) : gen.ev[j].op = "restoreState"}

\* the restoreState that ends the _draw_image_with_border that began at save j
RestoreOf(j) == CHOOSE m \in Restores : m > j /\ \A n \in Restores : n > j => m <= n

\* C19: every _draw_image_with_border that returns has one saveState matched by
\* one restoreState around one image, and leaves the fill color, the stroke
\* color, the line width and the depth of the stack of saved states as they
\* were before the call, for single and paired images alike.
C19_GraphicsStateScoped ==
  /\ Cardinality(Saves) = Len(ImagesOf(gen.ev))
  /\ Cardinality(Restores) = Cardinality(Saves)
  /\ \A j \in Saves :
       /\ \E m \in Restores : m > j
       /\ \A n \in Saves : ~(j < n /\ n < RestoreOf(j))
       /\ Cardinality({n \in j..RestoreOf(j) : gen.ev[n].op = "drawImage"}) = 1
       /\ gen.ev[RestoreOf(j)].arg = gen.ev[j].arg
       /\ gen.ev[RestoreOf(j)].w = gen.ev[j].w
       /\ gen.ev[RestoreOf(j)].x = gen.ev[j].x
  /\ gen.canvas.stack = <<>>

\* a pair was drawn: inside each call the padding was filled in white with a
\* canvas whose fill color was black before and is black again after the call
C19_Witness ==
  /\ OpName = "photo_side_by_side"
  /\ Cardinality(Saves) = 2
  /\ \A j \in Saves :
       /\ gen.ev[j].arg = <<"black", "black">>
       /\ gen.ev[j + 1].op = "rect" /\ gen.ev[j + 1].arg = <<"white">>
       /\ gen.ev[j].w # gen.photo_border_width
  /\ gen.canvas.gs.fill = "black"

\* the footer calls among the events
FooterDraws == {j \in 1..Len(gen.ev) : gen.ev[j].role = "footer"}

\* C20 (as claimed): once generate_pdf has created the canvas, every new_page and
\* the end of generate_pdf draw a footer, whatever the trip title is: every page
\* closed by showPage or save carries its footer, and the final _draw_footer,
\* when no canvas failure interrupts it, draws the separator and the three texts.
C20_FooterAlwaysDue ==
  /\ \A j \in ClosedPages :
       /\ gen.ev[j].page.footers # <<>>
       /\ FooterFailed(j) => gen.faults > 0
  /\ (OpName = "_draw_footer" /\ gen.raised = "") => Cardinality(FooterDraws) = FooterParts

-----------------------------------------------------------------------------
(* Claims about the step counter of the footer and the photo loop *)

\* the step whose blocks are on the pages the last action closed: the new_page
\* that opens step k closes the last page of step k - 1 (the title page for
\* k = 1); every other page boundary closes a page of the current step
StepOfClosedPages ==
  IF OpName = "new_page" THEN gen.current_step - 1 ELSE gen.current_step

\* C21 (as claimed): the footer of every page shows as 'current' the index of
\* the step whose blocks are on that page (0 for the title page, k for every
\* page of step k, its last page included), and as 'total' the number of steps.
C21_FooterCounterMatchesContent ==
  \A j \in ClosedPages :
    \A f \in 1..Len(gen.ev[j].page.footers) :
      /\ gen.ev[j].page.footers[f].cur = StepOfClosedPages
      /\ gen.ev[j].page.footers[f].total = gen.total_steps

\* the photo loop has run to its end: i >= len(photos)
LoopDone == pc = "photos" /\ i >= step.nphotos

\* the native sizes of the photos the last turn of the loop moved past, in order
SizesTaken == [k \in 1..Len(step.taken) |-> <<step.taken[k].w, step.taken[k].h>>]

\* C22: the photo loop of generate_step_pages terminates (it leaves the loop for
\* the next step, or aborts on an unreadable image), and every photo is drawn
\* exactly once, alone or in a pair, in the order of the sequence: each turn
\* draws exactly the photos photos[from .. i - 1] it moves past, in that order,
\* all of them readable, the first turn starts from 0, and the loop ends at
\* i = len(photos), never beyond.
C22_PhotoLoopCoverage ==
  /\ []((pc = "photos") =>
          /\ i <= step.nphotos
          /\ i = step.from + Len(step.taken)
          /\ \A k \in 1..Len(step.taken) : step.taken[k].ok
          /\ SizesDrawn(gen) = SizesTaken)
  /\ (pc = "photos") ~> (pc \in {"steps", "aborted"})

\* the loop ended on a step of two or more photos, its last turn a pair
C22_Witness ==
  /\ LoopDone
  /\ step.nphotos >= 2
  /\ step.from = step.nphotos - 2
  /\ Len(step.taken) = 2
  /\ Len(SizesDrawn(gen)) = 2

====
